---- MODULE Spec2Model ----
(***************************************************************************)
(* Model of cluster/ceph.py: the Ceph cluster orchestrator (initialize,    *)
(* check_health, mkpool/rmpool, create_recovery_test/wait_recovery_done)   *)
(* and the RecoveryTestThread fault-injection state machine.               *)
(*                                                                         *)
(* The module holds one specification per component:                       *)
(*   Spec        RecoveryTestThread.run and its owner (Ceph)               *)
(*   SpecLive    Spec under fair scheduling of the owner and the worker    *)
(*   SpecHealth  Ceph.check_health, one poll per step                      *)
(*   SpecInit    Ceph.initialize, one step begun or ended per step         *)
(*   SpecPool    Ceph.mkpool and Ceph.rmpool, one call per step            *)
(*   SpecReg     Ceph.set_ruleset, get_ruleset and make_profiles, one call *)
(*               per step                                                  *)
(*   SpecScrub   Ceph.check_scrub, one poll per step                       *)
(*   SpecRemote  the remote commands of dump_config, dump_historic_ops,    *)
(*               set_osd_param, shutdown, mkpool and rmpool, one command   *)
(*               started, finished on a node or waited for per step        *)
(***************************************************************************)
EXTENDS Integers, Sequences, FiniteSets, TLC

VARIABLES
    \* ---- Ceph / RecoveryTestThread (Spec) ----
    ownerPc,         \* position of the primary flow: "init", "started" (worker started),
                     \*   "enumerate" / "join" (inside wait_recovery_done), "returned"
    workerPc,        \* position of RecoveryTestThread.run: "unstarted", "clear_halt",
                     \*   "clear_stop", "loop", "exit_log", "exited"
    stoprequest,     \* Ceph.stoprequest (threading.Event)
    haltrequest,     \* Ceph.haltrequest (threading.Event)
    state,           \* RecoveryTestThread.state
    outhealthtries,  \* RecoveryTestThread.outhealthtries
    inhealthtries,   \* RecoveryTestThread.inhealthtries
    maxhealthtries,  \* RecoveryTestThread.maxhealthtries
    repeat,          \* config.get("repeat", False)
    noup,            \* the cluster's noup flag as set/unset by the injector's commands
    marked,          \* target osds currently marked down and out by the injector
    callbacks,       \* number of invocations of the caller's callback
    otherThreads,    \* live threads of the process besides the main thread and the worker
    outTicks,        \* history: invocations of the osdout handler in the current cycle
    outAllZero,      \* history: every check_health of those invocations returned 0
    repeated,        \* history: post has taken its repeat branch at least once
    inRetZero,       \* history: the last check_health call of osdin returned 0
    \* ---- Ceph.check_health (SpecHealth) ----
    hcPc,            \* "idle", "polling", "returned"
    hcArg,           \* the check_list argument the caller passed
    hcRet,           \* the local ret
    hcSeen,          \* history: the health outputs fetched so far, in order
    \* ---- Ceph.initialize (SpecInit) ----
    use_existing,    \* Ceph.use_existing
    idle_duration,   \* Ceph.idle_duration
    initPhase,       \* "idle", "ready" (between steps), "in_step", "raised", "returned"
    initPc,          \* index of the next step of initialize
    initLog,         \* history: the begin / end / raise events of the steps, in order
    \* ---- Ceph.mkpool / Ceph.rmpool and the cluster they command (SpecPool) ----
    pool_profiles,   \* config.get('pool_profiles', {'default': {}})
    ruleset_map,     \* Ceph.ruleset_map
    pools,           \* the cluster's pools: name -> [pg_num, size, kind]
    tiers,           \* the cluster's tier relationships <<base, cache>>
    overlays,        \* the cluster's overlays <<base, cache>>
    modes,           \* cache mode of the pools that were given one
    calls,           \* number of mkpool / rmpool calls made
    lastCall,        \* history: the last call, its commands and how it ended
    before,          \* history: pools, tiers, overlays when the last mkpool was called
    roundTrip,       \* history: the last two calls were mkpool(n, p) then rmpool(n, p)
    \* ---- Ceph.set_ruleset / get_ruleset / make_profiles (SpecReg) ----
    cur_ruleset,     \* Ceph.cur_ruleset
    crush_profiles,  \* config.get('crush_profiles', {}).items(), in iteration order
    erasure_profiles,\* config.get('erasure_profiles', {}).items(), in iteration order
    lastReg,         \* history: the last registry call, what it issued and how it ended
    \* ---- Ceph.check_scrub (SpecScrub) ----
    scPc,            \* "idle", "polling", "returned"
    scLast,          \* column 16 of the last pg dump fetched, one row per pg
    scPolls,         \* number of pg dumps fetched
    scSleeps,        \* number of time.sleep(1) calls made
    \* ---- remote commands of the primary flow (SpecRemote) ----
    rpcOp,           \* the operation the primary flow is in, "none" between operations
    rpcPc,           \* index of the operation's current step
    rpcPhase,        \* "issue" (about to run the step) or "wait" (inside communicate())
    running          \* <<operation, step, node>>: command processes still running

injVars == <<ownerPc, workerPc, stoprequest, haltrequest, state, outhealthtries,
             inhealthtries, maxhealthtries, repeat, noup, marked, callbacks,
             otherThreads, outTicks, outAllZero, repeated, inRetZero>>
hcVars == <<hcPc, hcArg, hcRet, hcSeen>>
orchVars == <<use_existing, idle_duration, initPhase, initPc, initLog>>
poolVars == <<pool_profiles, ruleset_map, pools, tiers, overlays, modes, calls,
              lastCall, before, roundTrip>>
regVars == <<cur_ruleset, crush_profiles, erasure_profiles, lastReg>>
scrubVars == <<scPc, scLast, scPolls, scSleeps>>
rpcVars == <<rpcOp, rpcPc, rpcPhase, running>>
nonInjVars == <<hcVars, orchVars, poolVars, regVars, scrubVars, rpcVars>>
nonHcVars == <<injVars, orchVars, poolVars, regVars, scrubVars, rpcVars>>
nonOrchVars == <<injVars, hcVars, poolVars, regVars, scrubVars, rpcVars>>
nonPoolVars == <<injVars, hcVars, orchVars, regVars, scrubVars, rpcVars>>
nonRegVars == <<injVars, hcVars, orchVars, pool_profiles, pools, tiers, overlays,
                modes, calls, lastCall, before, roundTrip, scrubVars, rpcVars>>
nonScrubVars == <<injVars, hcVars, orchVars, poolVars, regVars, rpcVars>>
nonRpcVars == <<injVars, hcVars, orchVars, poolVars, regVars, scrubVars>>
vars == <<injVars, hcVars, orchVars, poolVars, regVars, scrubVars, rpcVars>>

----------------------------------------------------------------------------
\* Bounds of the model.
MaxPolls == 3          \* polls of one check_health call that the model follows
MaxAttemptsSmall == 3  \* a small attempt cap, next to the constructor's 60
NumTargets == 2        \* configured target osds (config 'osds')
MaxOtherThreads == 1   \* unrelated live threads in the process
MaxIdle == 1           \* largest configured idle_duration
MaxCalls == 3          \* mkpool / rmpool calls of one run

\* RecoveryTestThread.__init__: self.maxhealthtries = 60. The attribute is
\* plain instance state: runs with a smaller cap (MaxAttemptsSmall) are runs of
\* a thread whose attribute was assigned before start().
DefaultMaxHealthTries == 60

TargetOsds == 1..NumTargets

----------------------------------------------------------------------------
\* Health output: the stdout of `ceph health`, as the set of its
\* whitespace-separated words (stdout.split()).
HealthWords == {"HEALTH_OK", "HEALTH_WARN", "degraded", "stale"}
HealthOutputs == SUBSET HealthWords

\* check_health line 306: the vocabulary the loop matches against.
FullVocabulary == {"degraded", "peering", "recovery_wait", "stuck", "inactive",
                   "unclean", "recovery", "stale"}
\* RecoveryTestThread.health_checklist (line 518)
health_checklist == {"degraded", "peering", "recovery_wait", "stuck", "inactive",
                     "unclean", "recovery"}
\* The check_list values callers pass: None (mkpool, initialize) or the injector's list.
NoList == {}
CheckListArgs == {NoList, health_checklist}

\* Line 306 rebinds the parameter check_list to the full vocabulary, whatever
\* the caller passed.
CheckListUsed(check_list) == FullVocabulary

\* Lines 312-316: the two breaks of the loop, for one fetched stdout.
\*   if check_list and not set(check_list).intersection(stdout.split()): break
\*   if "HEALTH_OK" in stdout: break
LoopBreaks_OnlyHealthOk(check_list, stdout) == "HEALTH_OK" \in stdout
LoopBreaks(check_list, stdout) ==
    LET cl == CheckListUsed(check_list) IN
    \/ (cl # {} /\ cl \cap stdout = {})
    \/ "HEALTH_OK" \in stdout

\* The whole call on a finite run of health outputs: the value of ret when the
\* loop breaks, or -1 when no output of the run breaks the loop (the call is
\* still polling at the end of the run).
RECURSIVE check_health_from(_, _, _, _)
check_health_from(check_list, outs, i, ret) ==
    IF i > Len(outs) THEN -1
    ELSE IF LoopBreaks(check_list, outs[i]) THEN ret
    ELSE check_health_from(check_list, outs, i + 1, ret + 1)

check_health(check_list, outs) == check_health_from(check_list, outs, 1, 0)

\* Every run of 1..MaxPolls health outputs.
HealthRuns == UNION {[1..n -> HealthOutputs] : n \in 1..MaxPolls}

\* The values a check_health(self.health_checklist, logfile) call of the
\* injector can return (osdout line 542, osdin line 566).
InjectorHealthRets == {check_health(health_checklist, outs) : outs \in HealthRuns} \ {-1}

----------------------------------------------------------------------------
\* Ceph.check_health, one poll of the loop per step (SpecHealth).

InitHealthIdle ==
    /\ hcPc = "idle"
    /\ hcArg = NoList
    /\ hcRet = 0
    /\ hcSeen = <<>>

\* Lines 301-306: entry, ret = 0.
check_health_enter(check_list) ==
    /\ hcPc = "idle"
    /\ hcPc' = "polling"
    /\ hcArg' = check_list
    /\ hcRet' = 0
    /\ hcSeen' = <<>>
    /\ UNCHANGED nonHcVars

\* Lines 307-321: one iteration of the while loop on the fetched stdout.
check_health_poll(stdout) ==
    /\ hcPc = "polling"
    /\ Len(hcSeen) < MaxPolls
    /\ hcSeen' = Append(hcSeen, stdout)
    /\ IF LoopBreaks(hcArg, stdout)
       THEN hcPc' = "returned" /\ hcRet' = hcRet
       ELSE hcPc' = "polling" /\ hcRet' = hcRet + 1
    /\ UNCHANGED <<hcArg, nonHcVars>>

----------------------------------------------------------------------------
\* RecoveryTestThread and its owner (Spec).

\* threading.enumerate(): the main thread, the worker while alive, the others.
WorkerAlive == workerPc \in {"clear_halt", "clear_stop", "loop", "exit_log"}
LiveThreads == 1 + (IF WorkerAlive THEN 1 ELSE 0) + otherThreads

\* Ceph.__init__ (stoprequest, haltrequest) and the not yet created thread.
InitInjectorIdle ==
    /\ ownerPc = "init"
    /\ workerPc = "unstarted"
    /\ stoprequest = FALSE
    /\ haltrequest = FALSE
    /\ state = "pre"
    /\ outhealthtries = 0
    /\ inhealthtries = 0
    /\ noup = FALSE
    /\ marked = {}
    /\ callbacks = 0
    /\ outTicks = 0
    /\ outAllZero = TRUE
    /\ repeated = FALSE
    /\ inRetZero = TRUE

\* Ceph.create_recovery_test: RecoveryTestThread.__init__ and start().
create_recovery_test ==
    /\ ownerPc = "init"
    /\ ownerPc' = "started"
    /\ workerPc' = "clear_halt"
    /\ state' = "pre"
    /\ outhealthtries' = 0
    /\ inhealthtries' = 0
    /\ UNCHANGED <<stoprequest, haltrequest, maxhealthtries, repeat, noup, marked,
                   callbacks, otherThreads, outTicks, outAllZero, repeated, inRetZero, nonInjVars>>

\* Ceph.wait_recovery_done line 362: self.stoprequest.set()
wait_set_stop ==
    /\ ownerPc = "started"
    /\ ownerPc' = "enumerate"
    /\ stoprequest' = TRUE
    /\ UNCHANGED <<workerPc, haltrequest, state, outhealthtries, inhealthtries,
                   maxhealthtries, repeat, noup, marked, callbacks, otherThreads,
                   outTicks, outAllZero, repeated, inRetZero, nonInjVars>>

\* Lines 364-366: threads = threading.enumerate(); if len(threads) == 1: break
OnlyMainThread == LiveThreads = 1
wait_enumerate ==
    /\ ownerPc = "enumerate"
    /\ ownerPc' = IF OnlyMainThread THEN "returned" ELSE "join"
    /\ UNCHANGED <<workerPc, stoprequest, haltrequest, state, outhealthtries,
                   inhealthtries, maxhealthtries, repeat, noup, marked, callbacks,
                   otherThreads, outTicks, outAllZero, repeated, inRetZero, nonInjVars>>

\* Line 367: self.rt.join(1) returns when the worker has ended or after 1 s.
wait_join ==
    /\ ownerPc = "join"
    /\ ownerPc' = "enumerate"
    /\ UNCHANGED <<workerPc, stoprequest, haltrequest, state, outhealthtries,
                   inhealthtries, maxhealthtries, repeat, noup, marked, callbacks,
                   otherThreads, outTicks, outAllZero, repeated, inRetZero, nonInjVars>>

\* An unrelated thread of the process ends.
other_thread_exit ==
    /\ otherThreads > 0
    /\ otherThreads' = otherThreads - 1
    /\ UNCHANGED <<ownerPc, workerPc, stoprequest, haltrequest, state, outhealthtries,
                   inhealthtries, maxhealthtries, repeat, noup, marked, callbacks,
                   outTicks, outAllZero, repeated, inRetZero, nonInjVars>>

\* run line 607: self.haltrequest.clear()
run_clear_halt ==
    /\ workerPc = "clear_halt"
    /\ workerPc' = "clear_stop"
    /\ haltrequest' = FALSE
    /\ UNCHANGED <<ownerPc, stoprequest, state, outhealthtries, inhealthtries,
                   maxhealthtries, repeat, noup, marked, callbacks, otherThreads,
                   outTicks, outAllZero, repeated, inRetZero, nonInjVars>>

\* run line 608: self.stoprequest.clear()
StopAfterClear == FALSE
run_clear_stop ==
    /\ workerPc = "clear_stop"
    /\ workerPc' = "loop"
    /\ stoprequest' = StopAfterClear
    /\ UNCHANGED <<ownerPc, haltrequest, state, outhealthtries, inhealthtries,
                   maxhealthtries, repeat, noup, marked, callbacks, otherThreads,
                   outTicks, outAllZero, repeated, inRetZero, nonInjVars>>

\* run lines 609-610: while not self.haltrequest.isSet(): self.states[self.state]()
InLoop_IgnoresHalt(s) == workerPc = "loop" /\ state = s
InLoop(s) == workerPc = "loop" /\ ~haltrequest /\ state = s

\* pre (lines 523-529): sleep pre_time, set noup.
pre ==
    /\ InLoop("pre")
    /\ noup' = TRUE
    /\ state' = "markdown"
    /\ UNCHANGED <<ownerPc, workerPc, stoprequest, haltrequest, outhealthtries,
                   inhealthtries, maxhealthtries, repeat, marked, callbacks,
                   otherThreads, outTicks, outAllZero, repeated, inRetZero, nonInjVars>>

\* markdown (lines 531-539): every configured osd is marked down, then out.
markdown ==
    /\ InLoop("markdown")
    /\ marked' = TargetOsds
    /\ state' = "osdout"
    /\ outTicks' = 0
    /\ outAllZero' = TRUE
    /\ UNCHANGED <<ownerPc, workerPc, stoprequest, haltrequest, outhealthtries,
                   inhealthtries, maxhealthtries, repeat, noup, callbacks,
                   otherThreads, repeated, inRetZero, nonInjVars>>

\* osdout line 545: if self.outhealthtries < self.maxhealthtries and ret == 0
OutStays_Inclusive(ret) == outhealthtries <= maxhealthtries /\ ret = 0
OutStays(ret) == outhealthtries < maxhealthtries /\ ret = 0

\* osdout lines 556-560: every osd of config.get('osds') is marked up, then in.
RevertedOsds_AllButFirst == TargetOsds \ {1}
RevertedOsds == TargetOsds

\* osdout (lines 541-562) with the value its check_health call returned.
osdout(ret) ==
    /\ InLoop("osdout")
    /\ outTicks' = outTicks + 1
    /\ outAllZero' = (outAllZero /\ ret = 0)
    /\ IF OutStays(ret)
       THEN /\ outhealthtries' = outhealthtries + 1
            /\ UNCHANGED <<state, noup, marked>>
       ELSE /\ noup' = FALSE
            /\ marked' = marked \ RevertedOsds
            /\ state' = "osdin"
            /\ UNCHANGED outhealthtries
    /\ UNCHANGED <<ownerPc, workerPc, stoprequest, haltrequest, inhealthtries,
                   maxhealthtries, repeat, callbacks, otherThreads, repeated, inRetZero, nonInjVars>>

\* osdin line 567: if self.inhealthtries < self.maxhealthtries and ret == 0
InStays_UsesOut(ret) == outhealthtries < maxhealthtries /\ ret = 0
InStays(ret) == inhealthtries < maxhealthtries /\ ret = 0

\* osdin (lines 564-575) with the value its check_health call returned.
osdin(ret) ==
    /\ InLoop("osdin")
    /\ inRetZero' = (ret = 0)
    /\ IF InStays(ret)
       THEN /\ inhealthtries' = inhealthtries + 1
            /\ UNCHANGED state
       ELSE /\ state' = "post"
            /\ UNCHANGED inhealthtries
    /\ UNCHANGED <<ownerPc, workerPc, stoprequest, haltrequest, outhealthtries,
                   maxhealthtries, repeat, noup, marked, callbacks, otherThreads,
                   outTicks, outAllZero, repeated, nonInjVars>>

\* post line 578: if self.stoprequest.isSet()
StopObserved_Always == TRUE
StopObserved == stoprequest

\* post line 583: if self.config.get("repeat", False)
RepeatConfigured_Always == TRUE
RepeatConfigured == repeat

\* post (lines 577-595)
post ==
    /\ InLoop("post")
    /\ IF StopObserved
       THEN /\ haltrequest' = TRUE
            /\ UNCHANGED <<state, outhealthtries, inhealthtries, repeated>>
       ELSE IF RepeatConfigured
       THEN /\ outhealthtries' = 0
            /\ inhealthtries' = 0
            /\ state' = "markdown"
            /\ repeated' = TRUE
            /\ UNCHANGED haltrequest
       ELSE /\ state' = "done"
            /\ UNCHANGED <<haltrequest, outhealthtries, inhealthtries, repeated>>
    /\ UNCHANGED <<ownerPc, workerPc, stoprequest, maxhealthtries, repeat, noup,
                   marked, callbacks, otherThreads, outTicks, outAllZero, inRetZero, nonInjVars>>

\* done (lines 597-600): the callback, then haltrequest.set()
done ==
    /\ InLoop("done")
    /\ callbacks' = callbacks + 1
    /\ haltrequest' = TRUE
    /\ UNCHANGED <<ownerPc, workerPc, stoprequest, state, outhealthtries,
                   inhealthtries, maxhealthtries, repeat, noup, marked,
                   otherThreads, outTicks, outAllZero, repeated, inRetZero, nonInjVars>>

\* run line 609 with haltrequest set: the loop ends.
run_loop_exit ==
    /\ workerPc = "loop"
    /\ haltrequest
    /\ workerPc' = "exit_log"
    /\ UNCHANGED <<ownerPc, stoprequest, haltrequest, state, outhealthtries,
                   inhealthtries, maxhealthtries, repeat, noup, marked, callbacks,
                   otherThreads, outTicks, outAllZero, repeated, inRetZero, nonInjVars>>

\* run line 611: the last log line; the thread ends.
run_exit ==
    /\ workerPc = "exit_log"
    /\ workerPc' = "exited"
    /\ UNCHANGED <<ownerPc, stoprequest, haltrequest, state, outhealthtries,
                   inhealthtries, maxhealthtries, repeat, noup, marked, callbacks,
                   otherThreads, outTicks, outAllZero, repeated, inRetZero, nonInjVars>>

----------------------------------------------------------------------------
\* Ceph.initialize (SpecInit).

InitOrchIdle ==
    /\ initPhase = "idle"
    /\ initPc = 1
    /\ initLog = <<>>

\* Lines 53-104: the calls of initialize after its guard, in program order.
\* Every call is synchronous (pdsh(...).communicate(), or a method that
\* returns when done); the idle block runs only if self.idle_duration > 0.
IdleSteps(idle) ==
    IF idle > 0
    THEN <<"monitoring_start_idle", "sleep_idle", "monitoring_stop_idle">>
    ELSE <<>>
InitializeSteps_OsdsBeforeMons(idle) ==
    <<"super_initialize", "rbd_unmount", "shutdown", "cleanup", "mkdir",
      "distribute_conf", "core_pattern", "setup_fs",
      "monitoring_start_creation", "make_osds", "make_mons", "start_rgw",
      "monitoring_stop_creation",
      "monitoring_start_health", "check_health", "monitoring_stop_health",
      "check_scrub", "make_profiles">> \o IdleSteps(idle)
InitializeSteps(idle) ==
    <<"super_initialize", "rbd_unmount", "shutdown", "cleanup", "mkdir",
      "distribute_conf", "core_pattern", "setup_fs",
      "monitoring_start_creation", "make_mons", "make_osds", "start_rgw",
      "monitoring_stop_creation",
      "monitoring_start_health", "check_health", "monitoring_stop_health",
      "check_scrub", "make_profiles">> \o IdleSteps(idle)

\* Lines 49-51: if self.use_existing: raise RuntimeError(...)
GuardRaises_Never == FALSE
GuardRaises == use_existing

\* The call of initialize: the guard, before anything else.
initialize_enter ==
    /\ initPhase = "idle"
    /\ initPhase' = IF GuardRaises THEN "raised" ELSE "ready"
    /\ UNCHANGED <<use_existing, idle_duration, initPc, initLog, nonOrchVars>>

\* The next call of the body starts.
initialize_step_begin ==
    /\ initPhase = "ready"
    /\ initPc <= Len(InitializeSteps(idle_duration))
    /\ initPhase' = "in_step"
    /\ initLog' = Append(initLog, <<"begin", InitializeSteps(idle_duration)[initPc]>>)
    /\ UNCHANGED <<use_existing, idle_duration, initPc, nonOrchVars>>

\* The running call returns; initialize goes on to its next statement.
initialize_step_end ==
    /\ initPhase = "in_step"
    /\ initPhase' = "ready"
    /\ initPc' = initPc + 1
    /\ initLog' = Append(initLog, <<"end", InitializeSteps(idle_duration)[initPc]>>)
    /\ UNCHANGED <<use_existing, idle_duration, nonOrchVars>>

\* The running call raises; initialize has no try/except, so it ends there.
initialize_step_raise ==
    /\ initPhase = "in_step"
    /\ initPhase' = "raised"
    /\ initLog' = Append(initLog, <<"raise", InitializeSteps(idle_duration)[initPc]>>)
    /\ UNCHANGED <<use_existing, idle_duration, initPc, nonOrchVars>>

\* Line 106: return True
initialize_return ==
    /\ initPhase = "ready"
    /\ initPc > Len(InitializeSteps(idle_duration))
    /\ initPhase' = "returned"
    /\ UNCHANGED <<use_existing, idle_duration, initPc, initLog, nonOrchVars>>

----------------------------------------------------------------------------
\* Ceph.mkpool / Ceph.rmpool (SpecPool).

\* Configuration values: None, an int, a str or a list, as the YAML gives them.
None == [t |-> "none"]
IntVal(n) == [t |-> "int", v |-> n]
StrVal(x) == [t |-> "str", v |-> x]
ListVal(x) == [t |-> "list", v |-> x]

\* str() of an int, for the ints the configurations hold.
PyStrInt(n) ==
    CASE n = -1 -> "-1"
      [] n = 0 -> "0"
      [] n = 2 -> "2"
      [] n = 3 -> "3"
\* str(value)
PyStr(v) ==
    CASE v.t = "none" -> "None"
      [] v.t = "str" -> v.v
      [] v.t = "int" -> PyStrInt(v.v)
\* str.isdigit(): non-empty and every character a digit.
DigitStrings == {"0", "1", "2", "3", "4", "5", "6", "7", "8", "9"}
IsDigit(x) == x \in DigitStrings
\* Truth value of a configuration value: None, 0, '' and [] are false.
Truthy(v) ==
    CASE v.t = "none" -> FALSE
      [] v.t = "str" -> v.v # ""
      [] v.t = "int" -> v.v # 0
      [] v.t = "list" -> v.v # <<>>

\* Pool names: a name given by the caller followed by n '-cache' suffixes; the
\* caller's names include one that itself ends in '-cache'.
PoolName(b, n) == <<b, n>>
\* Lines 481, 489: cache_name = '%s-cache' % name
CacheName_Same(name) == name
CacheName(name) == <<name[1], name[2] + 1>>

\* dict.get(key, default)
Get(d, key, default) == IF key \in DOMAIN d THEN d[key] ELSE default
EmptyProfile == [k \in {} |-> None]

\* The pool_profiles tables of the configurations, and the table used when the
\* configuration has none (lines 422, 485).
MainProfiles ==
    [rep3 |-> [replication |-> IntVal(3), pg_size |-> IntVal(128), pgp_size |-> IntVal(128)],
     ec |-> [replication |-> StrVal("erasure"), erasure_profile |-> StrVal("ec62"),
             pg_size |-> IntVal(64), pgp_size |-> IntVal(64)],
     tiered |-> [replication |-> IntVal(3), pg_size |-> IntVal(128), pgp_size |-> IntVal(128),
                 cache_profile |-> StrVal("hot")],
     hot |-> [replication |-> IntVal(2), pg_size |-> IntVal(64), pgp_size |-> IntVal(64),
              cache_mode |-> StrVal("writeback"), hit_set_type |-> StrVal("bloom"),
              hit_set_count |-> IntVal(3), target_max_objects |-> IntVal(0)],
     lazy |-> [pg_size |-> IntVal(64), pgp_size |-> IntVal(64), cache_profile |-> StrVal("rep3")],
     ruled |-> [replication |-> IntVal(2), crush_profile |-> StrVal("fast"),
                cache_profile |-> StrVal("hot")]]
NoProfilesConfigured == [default |-> EmptyProfile]
ProfileTables == {MainProfiles, NoProfilesConfigured}
\* The profile names callers pass.
ProfileNameArgs == {"rep3", "ec", "tiered", "lazy", "ruled", "default", "nosuch"}
\* The pool names callers pass: "data" and "data-cache".
PoolNameArgs == {PoolName("data", 0), PoolName("data", 1)}

\* Lines 423, 486: profile = pool_profiles.get(profile_name, {})
ResolveProfile(profile_name) == Get(pool_profiles, profile_name, EmptyProfile)

\* The cluster as the commands of mkpool / rmpool change it.
Cluster == [pools |-> pools, tiers |-> tiers, overlays |-> overlays, modes |-> modes]

Without(f, x) == [y \in DOMAIN f \ {x} |-> f[y]]
With(f, x, v) == [y \in DOMAIN f \cup {x} |-> IF y = x THEN v ELSE f[y]]
IsTier(cl, p) == \E e \in cl.tiers : e[2] = p
HasTiers(cl, p) == \E e \in cl.tiers : e[1] = p
HasOverlay(cl, p) == \E e \in cl.overlays : e[1] = p

\* The effect of one command on the cluster. A command the monitor refuses
\* leaves the cluster as it is; mkpool and rmpool do not read the outcome.
ApplyCmd(cl, c) ==
    CASE c[1] = "pool_create" ->
            \* line 440: the 5th word is taken as the pool type; '' is replicated
            IF c[2] \in DOMAIN cl.pools \/ c[5] # "" THEN cl
            ELSE [cl EXCEPT !.pools = With(@, c[2],
                     [pg_num |-> c[3], size |-> "default", kind |-> "replicated"])]
      [] c[1] = "pool_create_erasure" ->
            IF c[2] \in DOMAIN cl.pools THEN cl
            ELSE [cl EXCEPT !.pools = With(@, c[2],
                     [pg_num |-> c[3], size |-> "default", kind |-> "erasure"])]
      [] c[1] = "pool_create_replicated" ->
            IF c[2] \in DOMAIN cl.pools THEN cl
            ELSE [cl EXCEPT !.pools = With(@, c[2],
                     [pg_num |-> c[3], size |-> "default", kind |-> "replicated"])]
      [] c[1] = "pool_set_size" ->
            IF c[2] \in DOMAIN cl.pools
            THEN [cl EXCEPT !.pools[c[2]].size = c[3]]
            ELSE cl
      [] c[1] = "tier_add" ->
            IF /\ c[2] \in DOMAIN cl.pools
               /\ c[3] \in DOMAIN cl.pools
               /\ c[2] # c[3]
               /\ ~IsTier(cl, c[2])
               /\ ~IsTier(cl, c[3])
               /\ ~HasTiers(cl, c[3])
            THEN [cl EXCEPT !.tiers = @ \cup {<<c[2], c[3]>>}]
            ELSE cl
      [] c[1] = "tier_cache_mode" ->
            IF IsTier(cl, c[2])
            THEN [cl EXCEPT !.modes = With(@, c[2], c[3])]
            ELSE cl
      [] c[1] = "tier_set_overlay" ->
            IF <<c[2], c[3]>> \in cl.tiers /\ ~HasOverlay(cl, c[2])
            THEN [cl EXCEPT !.overlays = @ \cup {<<c[2], c[3]>>}]
            ELSE cl
      [] c[1] = "tier_remove_overlay" ->
            [cl EXCEPT !.overlays = {e \in @ : e[1] # c[2]}]
      [] c[1] = "tier_remove" ->
            IF <<c[2], c[3]>> \in cl.tiers /\ <<c[2], c[3]>> \notin cl.overlays
            THEN [cl EXCEPT !.tiers = @ \ {<<c[2], c[3]>>},
                            !.modes = Without(@, c[3])]
            ELSE cl
      [] c[1] = "pool_delete" ->
            \* the monitor wants the name twice and --yes-i-really-really-mean-it
            IF /\ c[2] \in DOMAIN cl.pools /\ ~IsTier(cl, c[2]) /\ ~HasTiers(cl, c[2])
               /\ c[3] = c[2] /\ c[4] = "--yes-i-really-really-mean-it"
            THEN [cl EXCEPT !.pools = Without(@, c[2])]
            ELSE cl
      [] OTHER -> cl

RECURSIVE ApplyCmds(_, _)
ApplyCmds(cl, cmds) ==
    IF cmds = <<>> THEN cl ELSE ApplyCmds(ApplyCmd(cl, Head(cmds)), Tail(cmds))

\* Lines 425-426: profile.get('pg_size', 1024), profile.get('pgp_size', 1024)
DefaultPgSize == 1024

\* mkpool(name, profile_name, base_name=None): no base pool given.
NoBase == PoolName("None", 0)

\* The health outputs the cluster gives after a mkpool call starts: the listed
\* ones, then HEALTH_OK from there on.
HealthOk == {"HEALTH_OK"}
Degraded == {"HEALTH_WARN", "degraded"}
PoolHealthStreams == {<<>>, <<Degraded>>}

\* self.check_health() inside mkpool: the value returned, and the outputs left.
HealthCall(stream) ==
    LET ret == check_health(NoList, stream \o <<HealthOk>>) IN
    [ret |-> ret, rest |-> SubSeq(stream, ret + 2, Len(stream))]

\* Lines 440-445: the unconditional create, then the create by replication mode.
CreateCmds(name, pg_size, pgp_size, replication, erasure_profile) ==
    <<<<"pool_create", name, pg_size, pgp_size, erasure_profile>>,
      IF replication = "erasure"
      THEN <<"pool_create_erasure", name, pg_size, pgp_size, erasure_profile>>
      ELSE <<"pool_create_replicated", name, pg_size, pgp_size>> >>

\* Line 450: if replication and replication.isdigit()
SetsReplication_Never(replication) == FALSE
SetsReplication_AnyTrue(replication) == replication # ""
SetsReplication(replication) == replication # "" /\ IsDigit(replication)

\* Line 455: if base_name and cache_mode
AttachesTier(base_name, cache_mode) == base_name # NoBase /\ Truthy(cache_mode)

\* Lines 457-459: tier add, cache-mode, set-overlay.
TierCmds_OverlayFirst(name, base_name, cache_mode) ==
    <<<<"tier_set_overlay", base_name, name>>,
      <<"tier_add", base_name, name>>,
      <<"tier_cache_mode", name, PyStr(cache_mode)>> >>
TierCmds(name, base_name, cache_mode) ==
    <<<<"tier_add", base_name, name>>,
      <<"tier_cache_mode", name, PyStr(cache_mode)>>,
      <<"tier_set_overlay", base_name, name>> >>

\* Lines 464-475: one 'osd pool set' per tuning key whose value is true.
Knob(name, profile, key) ==
    LET v == Get(profile, key, None) IN
    IF Truthy(v) THEN << <<"pool_set", name, key, PyStr(v)>> >> ELSE <<>>
KnobCmds(name, profile) ==
    Knob(name, profile, "hit_set_type") \o Knob(name, profile, "hit_set_count")
    \o Knob(name, profile, "hit_set_period") \o Knob(name, profile, "target_max_objects")
    \o Knob(name, profile, "target_max_bytes")
    \o Knob(name, profile, "min_read_recency_for_promote")

\* Ceph.mkpool (lines 421-482) with the health outputs it meets: the commands
\* and polls it issues in order, the exception that ended it ("none" when it
\* returned) and the health outputs left.
RECURSIVE MkpoolRun(_, _, _, _)
MkpoolRun(name, profile_name, base_name, stream) ==
    LET profile == ResolveProfile(profile_name)
        pg_size == Get(profile, "pg_size", IntVal(DefaultPgSize)).v
        pgp_size == Get(profile, "pgp_size", IntVal(DefaultPgSize)).v
        erasure_profile == PyStr(Get(profile, "erasure_profile", StrVal("")))
        replication == PyStr(Get(profile, "replication", None))
        cache_profile == Get(profile, "cache_profile", None)
        crush_profile == Get(profile, "crush_profile", None)
        cache_mode == Get(profile, "cache_mode", None)
        h1 == HealthCall(stream)
        c1 == CreateCmds(name, pg_size, pgp_size, replication, erasure_profile)
                 \o << <<"check_health", h1.ret>> >>
        h2 == IF SetsReplication(replication) THEN HealthCall(h1.rest)
              ELSE [ret |-> 0, rest |-> h1.rest]
        c2 == IF SetsReplication(replication)
              THEN << <<"pool_set_size", name, replication>>, <<"check_health", h2.ret>> >>
              ELSE <<>>
        c3 == IF AttachesTier(base_name, cache_mode)
              THEN TierCmds(name, base_name, cache_mode)
              ELSE <<>>
        \* lines 461-463: get_ruleset raises KeyError for an unregistered name
        lookupFails == Truthy(crush_profile) /\ PyStr(crush_profile) \notin DOMAIN ruleset_map
        c4 == IF Truthy(crush_profile) /\ ~lookupFails
              THEN << <<"pool_set", name, "crush_ruleset", ruleset_map[PyStr(crush_profile)]>> >>
              ELSE <<>>
        h3 == HealthCall(h2.rest)
        c5 == KnobCmds(name, profile) \o << <<"check_health", h3.ret>> >>
    IN  IF lookupFails
        THEN [cmds |-> c1 \o c2 \o c3, error |-> "KeyError", rest |-> h2.rest]
        ELSE IF Truthy(cache_profile)
        THEN LET sub == MkpoolRun(CacheName(name), PyStr(cache_profile), name, h3.rest)
             IN  [cmds |-> c1 \o c2 \o c3 \o c4 \o c5 \o sub.cmds,
                  error |-> sub.error, rest |-> sub.rest]
        ELSE [cmds |-> c1 \o c2 \o c3 \o c4 \o c5, error |-> "none", rest |-> h3.rest]

\* Line 499: osd pool delete <name> <name> --yes-i-really-really-mean-it
DeleteCmd(name) == <<"pool_delete", name, name, "--yes-i-really-really-mean-it">>

\* Lines 492-495: forward mode, flush and evict, remove the overlay, remove the tier.
DetachCmds_FlushLast(name, cache_name) ==
    <<<<"tier_cache_mode", cache_name, "forward">>,
      <<"tier_remove_overlay", name>>,
      <<"tier_remove", name, cache_name>>,
      <<"cache_flush_evict_all", cache_name>> >>
DetachCmds_KeepTier(name, cache_name) ==
    <<<<"tier_cache_mode", cache_name, "forward">>,
      <<"cache_flush_evict_all", cache_name>> >>
DetachCmds(name, cache_name) ==
    <<<<"tier_cache_mode", cache_name, "forward">>,
      <<"cache_flush_evict_all", cache_name>>,
      <<"tier_remove_overlay", name>>,
      <<"tier_remove", name, cache_name>> >>

\* Ceph.rmpool (lines 484-499): the commands it issues, in order.
RECURSIVE RmpoolCmds(_, _)
RmpoolCmds(name, profile_name) ==
    LET profile == ResolveProfile(profile_name)
        cache_profile == Get(profile, "cache_profile", None)
    IN  (IF Truthy(cache_profile)
         THEN DetachCmds(name, CacheName(name))
                 \o RmpoolCmds(CacheName(name), PyStr(cache_profile))
         ELSE <<>>)
        \o <<DeleteCmd(name)>>

NoCall == [op |-> "none", name |-> NoBase, profile |-> "", stream |-> <<>>,
           cmds |-> <<>>, error |-> "none"]

InitPoolIdle ==
    /\ pools = <<>>
    /\ tiers = {}
    /\ overlays = {}
    /\ modes = <<>>
    /\ calls = 0
    /\ lastCall = NoCall
    /\ before = [pools |-> {}, tiers |-> {}, overlays |-> {}]
    /\ roundTrip = FALSE

\* A call of mkpool(name, profile_name) by the primary flow.
mkpool(name, profile_name, stream) ==
    /\ calls < MaxCalls
    /\ LET run == MkpoolRun(name, profile_name, NoBase, stream)
           cl == ApplyCmds(Cluster, run.cmds)
       IN  /\ pools' = cl.pools
           /\ tiers' = cl.tiers
           /\ overlays' = cl.overlays
           /\ modes' = cl.modes
           /\ lastCall' = [op |-> "mkpool", name |-> name, profile |-> profile_name,
                           stream |-> stream, cmds |-> run.cmds, error |-> run.error]
    /\ before' = [pools |-> DOMAIN pools, tiers |-> tiers, overlays |-> overlays]
    /\ roundTrip' = FALSE
    /\ calls' = calls + 1
    /\ UNCHANGED <<pool_profiles, ruleset_map, nonPoolVars>>

\* A call of rmpool(name, profile_name) by the primary flow.
rmpool(name, profile_name) ==
    /\ calls < MaxCalls
    /\ LET cmds == RmpoolCmds(name, profile_name)
           cl == ApplyCmds(Cluster, cmds)
       IN  /\ pools' = cl.pools
           /\ tiers' = cl.tiers
           /\ overlays' = cl.overlays
           /\ modes' = cl.modes
           /\ lastCall' = [op |-> "rmpool", name |-> name, profile |-> profile_name,
                           stream |-> <<>>, cmds |-> cmds, error |-> "none"]
    /\ roundTrip' = (lastCall.op = "mkpool" /\ lastCall.name = name
                        /\ lastCall.profile = profile_name)
    /\ calls' = calls + 1
    /\ UNCHANGED <<pool_profiles, ruleset_map, before, nonPoolVars>>

----------------------------------------------------------------------------
\* The ruleset registry (lines 40-41, 371-381) and make_profiles (383-419).

\* Line 373: name in self.ruleset_map
RulesetExists_Never(map, name) == FALSE
RulesetExists(map, name) == name \in DOMAIN map

\* Line 376: self.cur_ruleset += 1
NextRuleset_Same(cur) == cur
NextRuleset(cur) == cur + 1

\* Ceph.set_ruleset (lines 371-376) on a registry (map, cur): the registry it
\* leaves and the exception raised ("none" when it returned).
SetRuleset(map, cur, name) ==
    LET n == PyStr(name)
    IN  IF RulesetExists(map, n)
        THEN [map |-> map, cur |-> cur, error |-> "DuplicateRule"]
        ELSE [map |-> With(map, n, cur), cur |-> NextRuleset(cur), error |-> "none"]

\* Ceph.get_ruleset (lines 378-381): the value returned, or KeyError.
GetRuleset(map, name) ==
    LET n == PyStr(name)
    IN  IF n \in DOMAIN map THEN [ret |-> map[n], error |-> "none"]
        ELSE [ret |-> 0, error |-> "KeyError"]

\* Lines 390-396: the six bucket commands formatted for one crush profile.
BucketCmds(name) ==
    LET n == PyStr(name)
    IN  << <<"add_bucket", n, "root">>,
           <<"add_bucket", n, "root">>,
           <<"add_bucket", n, "rack">>,
           <<"move", n, "rack", "root">>,
           <<"add_bucket", n, "host">>,
           <<"move", n, "host", "rack">> >>
\* Lines 407-408: one 'osd crush set' per osd of the profile.
OsdCmds(name, osds) == [i \in 1..Len(osds) |-> <<"crush_set", osds[i], PyStr(name)>>]
\* Line 409: osd crush rule create-simple
RuleCmd(name) == <<"rule_create_simple", PyStr(name)>>

\* Lines 400-401: osds = profile.get('osds', None); if not osds
NoOsds_OnlyMissing(profile) == Get(profile, "osds", None) = None
NoOsds(profile) == ~Truthy(Get(profile, "osds", None))

\* Lines 398-410: the loop over the crush profiles, from a registry (map, cur).
RECURSIVE CrushRun(_, _, _)
CrushRun(items, map, cur) ==
    IF items = <<>>
    THEN [cmds |-> <<>>, added |-> <<>>, map |-> map, cur |-> cur, error |-> "none"]
    ELSE LET name == Head(items)[1]
             profile == Head(items)[2]
             own == BucketCmds(name) \o OsdCmds(name, Get(profile, "osds", None).v)
                       \o <<RuleCmd(name)>>
             set == SetRuleset(map, cur, name)
         IN  IF NoOsds(profile)
             THEN [cmds |-> <<>>, added |-> <<>>, map |-> map, cur |-> cur,
                   error |-> "NoOSDs"]
             ELSE IF set.error # "none"
             THEN [cmds |-> own, added |-> <<>>, map |-> map, cur |-> cur,
                   error |-> set.error]
             ELSE LET rest == CrushRun(Tail(items), set.map, set.cur)
                  IN  [cmds |-> own \o rest.cmds,
                       added |-> <<PyStr(name)>> \o rest.added,
                       map |-> rest.map, cur |-> rest.cur, error |-> rest.error]

\* Lines 417-418: profile.get('erasure_k', 6), profile.get('erasure_m', 2)
DefaultErasureK == 6
DefaultErasureM == 2
\* Lines 414-418: osd erasure-code-profile set
ErasureCmd(name, profile) ==
    <<"erasure_code_profile_set", PyStr(name),
      Get(profile, "erasure_k", IntVal(DefaultErasureK)).v,
      Get(profile, "erasure_m", IntVal(DefaultErasureM)).v>>

\* Lines 412-419: the loop over the erasure profiles.
RECURSIVE ErasureRun(_, _, _)
ErasureRun(items, map, cur) ==
    IF items = <<>>
    THEN [cmds |-> <<>>, added |-> <<>>, map |-> map, cur |-> cur, error |-> "none"]
    ELSE LET name == Head(items)[1]
             own == <<ErasureCmd(name, Head(items)[2])>>
             set == SetRuleset(map, cur, name)
         IN  IF set.error # "none"
             THEN [cmds |-> own, added |-> <<>>, map |-> map, cur |-> cur,
                   error |-> set.error]
             ELSE LET rest == ErasureRun(Tail(items), set.map, set.cur)
                  IN  [cmds |-> own \o rest.cmds,
                       added |-> <<PyStr(name)>> \o rest.added,
                       map |-> rest.map, cur |-> rest.cur, error |-> rest.error]

\* Ceph.make_profiles (lines 383-419) from a registry (map, cur).
MakeProfilesRun(map, cur) ==
    LET c == CrushRun(crush_profiles, map, cur)
        e == ErasureRun(erasure_profiles, c.map, c.cur)
    IN  IF c.error # "none" THEN c
        ELSE [cmds |-> c.cmds \o e.cmds, added |-> c.added \o e.added,
              map |-> e.map, cur |-> e.cur, error |-> e.error]

\* The crush and erasure profiles of the configurations.
FastItem == <<StrVal("fast"), [osds |-> ListVal(<<0, 1>>)]>>
SlowItem == <<StrVal("slow"), [osds |-> ListVal(<<2>>)]>>
NumberedItem == <<IntVal(2), [osds |-> ListVal(<<3>>)]>>
EmptyItem == <<StrVal("bad"), [osds |-> ListVal(<<>>)]>>
MissingItem == <<StrVal("bare"), EmptyProfile>>
RECURSIVE Orders(_)
Orders(S) ==
    IF S = {} THEN {<<>>}
    ELSE UNION {{<<x>> \o o : o \in Orders(S \ {x})} : x \in S}
CrushConfigs ==
    Orders({}) \cup Orders({FastItem, SlowItem}) \cup Orders({FastItem, NumberedItem})
        \cup Orders({FastItem, EmptyItem}) \cup Orders({FastItem, SlowItem, MissingItem})
ErasureConfigs ==
    {<<>>,
     << <<StrVal("ec62"), EmptyProfile>> >>,
     << <<StrVal("ec42"), [erasure_k |-> IntVal(4), erasure_m |-> IntVal(2)]>>,
        <<StrVal("fast"), EmptyProfile>> >>}
\* The names callers pass to set_ruleset and get_ruleset.
RulesetNameArgs == {StrVal("fast"), StrVal("2"), IntVal(2), StrVal("ec62")}

NoRegCall == [op |-> "none", name |-> None, error |-> "none", ret |-> 0,
              cmds |-> <<>>, added |-> <<>>]

InitRegIdle ==
    /\ crush_profiles = <<>>
    /\ erasure_profiles = <<>>
    /\ lastReg = NoRegCall

\* A call of set_ruleset(name).
set_ruleset(name) ==
    LET set == SetRuleset(ruleset_map, cur_ruleset, name)
    IN  /\ ruleset_map' = set.map
        /\ cur_ruleset' = set.cur
        /\ lastReg' = [op |-> "set_ruleset", name |-> name, error |-> set.error,
                       ret |-> 0, cmds |-> <<>>,
                       added |-> IF set.error = "none" THEN <<PyStr(name)>> ELSE <<>>]
        /\ UNCHANGED <<crush_profiles, erasure_profiles, nonRegVars>>

\* A call of get_ruleset(name).
get_ruleset(name) ==
    LET got == GetRuleset(ruleset_map, name)
    IN  /\ lastReg' = [op |-> "get_ruleset", name |-> name, error |-> got.error,
                       ret |-> got.ret, cmds |-> <<>>, added |-> <<>>]
        /\ UNCHANGED <<ruleset_map, cur_ruleset, crush_profiles, erasure_profiles,
                       nonRegVars>>

\* A call of make_profiles().
make_profiles ==
    LET run == MakeProfilesRun(ruleset_map, cur_ruleset)
    IN  /\ ruleset_map' = run.map
        /\ cur_ruleset' = run.cur
        /\ lastReg' = [op |-> "make_profiles", name |-> None, error |-> run.error,
                       ret |-> 0, cmds |-> run.cmds, added |-> run.added]
        /\ UNCHANGED <<crush_profiles, erasure_profiles, nonRegVars>>

----------------------------------------------------------------------------
\* Ceph.check_scrub (lines 325-334). Text is a sequence of characters.

NumPgs == 3   \* placement groups listed by pg dump

\* Values of column 16 of pg dump.
ZeroStamp == <<"0", ".", "0", "0", "0", "0", "0", "0">>
TenStamp == <<"1", "0", ".", "0", "0", "0", "0", "0", "0">>
HalfStamp == <<"0", ".", "5", "0", "0", "0", "0", "0">>
LateStamp == <<"3", ".", "2", "5", "0", "0", "0", "0">>
ScrubStamps == {ZeroStamp, TenStamp, HalfStamp, LateStamp}
PgDumps == [1..NumPgs -> ScrubStamps]

\* Line 327: grep "0.000000": the pattern anywhere in the line, '.' any character.
GrepPattern == <<"0", ".", "0", "0", "0", "0", "0", "0">>
MatchesAt(row, k) ==
    \A i \in 1..Len(GrepPattern) : GrepPattern[i] = "." \/ row[k + i - 1] = GrepPattern[i]
GrepMatches_WholeLine(row) == Len(row) = Len(GrepPattern) /\ MatchesAt(row, 1)
GrepMatches(row) == \E k \in 1..(Len(row) - Len(GrepPattern) + 1) : MatchesAt(row, k)
\* Line 327: | wc -l
WcL(dump) == Cardinality({i \in DOMAIN dump : GrepMatches(dump[i])})

Digit(d) ==
    CASE d = 0 -> "0" [] d = 1 -> "1" [] d = 2 -> "2" [] d = 3 -> "3" [] d = 4 -> "4"
      [] d = 5 -> "5" [] d = 6 -> "6" [] d = 7 -> "7" [] d = 8 -> "8" [] d = 9 -> "9"
RECURSIVE Decimal(_)
Decimal(n) == IF n < 10 THEN <<Digit(n)>> ELSE Decimal(n \div 10) \o <<Digit(n % 10)>>
\* Line 329: the output of pdsh on the head node: "<host>: <count>\n".
ScrubStdout(dump) == <<"h", ":", " ">> \o Decimal(WcL(dump)) \o <<"\n">>

Contains(text, sub) ==
    \E k \in 0..(Len(text) - Len(sub)) : \A i \in 1..Len(sub) : text[k + i] = sub[i]
\* Line 330: " 0\n" in stdout
ScrubDone(stdout) == Contains(stdout, <<" ", "0", "\n">>)

InitScrubIdle ==
    /\ scPc = "idle"
    /\ scLast = <<>>
    /\ scPolls = 0
    /\ scSleeps = 0

\* check_scrub is called.
check_scrub_enter ==
    /\ scPc = "idle"
    /\ scPc' = "polling"
    /\ UNCHANGED <<scLast, scPolls, scSleeps, nonScrubVars>>

\* One pass of the loop (lines 328-334): fetch, test, and sleep unless done.
check_scrub_poll(dump) ==
    /\ scPc = "polling"
    /\ scPolls < MaxPolls
    /\ scLast' = dump
    /\ scPolls' = scPolls + 1
    /\ IF ScrubDone(ScrubStdout(dump))
       THEN scPc' = "returned" /\ scSleeps' = scSleeps
       ELSE scPc' = "polling" /\ scSleeps' = scSleeps + 1
    /\ UNCHANGED nonScrubVars

----------------------------------------------------------------------------
\* The remote commands of the primary flow. common.pdsh(nodes, cmd) starts the
\* command on every node of nodes and returns the running process;
\* .communicate() on it returns when the command has ended on all of them.

NumNodes == 2   \* nodes a command is fanned out to
Nodes == 1..NumNodes

\* A step of an operation: the command, whether it is sent to the nodes, and
\* whether the operation calls .communicate() on it.
Step(cmd, remote, wait) == [cmd |-> cmd, remote |-> remote, wait |-> wait]
Waited(cmd) == Step(cmd, TRUE, TRUE)

\* Line 350: common.pdsh(settings.getnodes('osds'), cmd)
SetOsdParamSteps == <<Step("set_queue_param", TRUE, FALSE)>>
\* Lines 336-339
DumpConfigSteps == <<Waited("config_show")>>
\* Lines 341-344
DumpHistoricOpsSteps == <<Waited("dump_historic_ops")>>
\* Lines 108-121
ShutdownSteps ==
    <<Waited("killall massif-amd64-li"), Waited("killall memcheck-amd64-"),
      Waited("killall ceph-osd"), Waited("killall ceph-mon"), Waited("killall ceph-mds"),
      Waited("killall rados"), Waited("killall rest-bench"), Waited("killall radosgw"),
      Waited("killall radosgw-admin"), Waited("apache2 stop"), Waited("killall pdsh"),
      Step("monitoring.stop", FALSE, FALSE)>>
\* Lines 421-482 and 484-499: every command and every health poll (lines
\* 308-310) is followed by .communicate().
AllWaited(cmds) == [i \in 1..Len(cmds) |-> Waited(cmds[i][1])]
MkpoolSteps == AllWaited(MkpoolRun(PoolName("data", 0), "default", NoBase, <<>>).cmds)
RmpoolSteps == AllWaited(RmpoolCmds(PoolName("data", 0), "default"))

RemoteOps == {"dump_config", "dump_historic_ops", "set_osd_param", "shutdown",
              "mkpool", "rmpool"}
OpSteps(op) ==
    CASE op = "dump_config" -> DumpConfigSteps
      [] op = "dump_historic_ops" -> DumpHistoricOpsSteps
      [] op = "set_osd_param" -> SetOsdParamSteps
      [] op = "shutdown" -> ShutdownSteps
      [] op = "mkpool" -> MkpoolSteps
      [] op = "rmpool" -> RmpoolSteps

InitRpcIdle ==
    /\ rpcOp = "none"
    /\ rpcPc = 0
    /\ rpcPhase = "issue"
    /\ running = {}

\* The primary flow calls an operation.
rpc_call(op) ==
    /\ rpcOp = "none"
    /\ rpcOp' = op
    /\ rpcPc' = 1
    /\ rpcPhase' = "issue"
    /\ UNCHANGED <<running, nonRpcVars>>

\* The operation runs its current step: a remote command is started on every
\* node; with .communicate() the operation then waits, without it it goes on.
rpc_issue ==
    /\ rpcOp # "none"
    /\ rpcPhase = "issue"
    /\ rpcPc <= Len(OpSteps(rpcOp))
    /\ LET step == OpSteps(rpcOp)[rpcPc]
       IN  /\ running' = IF step.remote
                         THEN running \cup {<<rpcOp, rpcPc, n>> : n \in Nodes}
                         ELSE running
           /\ IF step.wait
              THEN rpcPhase' = "wait" /\ rpcPc' = rpcPc
              ELSE rpcPhase' = "issue" /\ rpcPc' = rpcPc + 1
    /\ UNCHANGED <<rpcOp, nonRpcVars>>

\* A started command ends on one node.
rpc_node_done(proc) ==
    /\ proc \in running
    /\ running' = running \ {proc}
    /\ UNCHANGED <<rpcOp, rpcPc, rpcPhase, nonRpcVars>>

\* .communicate() returns: the command has ended on every node.
rpc_communicate_return ==
    /\ rpcOp # "none"
    /\ rpcPhase = "wait"
    /\ \A n \in Nodes : <<rpcOp, rpcPc, n>> \notin running
    /\ rpcPhase' = "issue"
    /\ rpcPc' = rpcPc + 1
    /\ UNCHANGED <<rpcOp, running, nonRpcVars>>

\* The operation returns to the primary flow.
rpc_return ==
    /\ rpcOp # "none"
    /\ rpcPhase = "issue"
    /\ rpcPc > Len(OpSteps(rpcOp))
    /\ rpcOp' = "none"
    /\ rpcPc' = 0
    /\ UNCHANGED <<rpcPhase, running, nonRpcVars>>

----------------------------------------------------------------------------
\* Specifications.

Init ==
    /\ InitInjectorIdle
    /\ maxhealthtries \in {MaxAttemptsSmall, DefaultMaxHealthTries}
    /\ repeat \in BOOLEAN
    /\ otherThreads \in 0..MaxOtherThreads
    /\ InitHealthIdle
    /\ use_existing = TRUE
    /\ idle_duration = 0
    /\ InitOrchIdle
    /\ pool_profiles = NoProfilesConfigured
    /\ ruleset_map = <<>>
    /\ InitPoolIdle
    /\ cur_ruleset = 1
    /\ InitRegIdle
    /\ InitScrubIdle
    /\ InitRpcIdle

Next ==
    \/ create_recovery_test
    \/ wait_set_stop
    \/ wait_enumerate
    \/ wait_join
    \/ other_thread_exit
    \/ run_clear_halt
    \/ run_clear_stop
    \/ pre
    \/ markdown
    \/ \E ret \in InjectorHealthRets : osdout(ret)
    \/ \E ret \in InjectorHealthRets : osdin(ret)
    \/ post
    \/ done
    \/ run_loop_exit
    \/ run_exit

Spec == Init /\ [][Next]_vars

\* The steps of the owner inside wait_recovery_done, and of the worker thread.
OwnerWaitStep == wait_enumerate \/ wait_join
WorkerStep ==
    \/ run_clear_halt
    \/ run_clear_stop
    \/ pre
    \/ markdown
    \/ \E ret \in InjectorHealthRets : osdout(ret)
    \/ \E ret \in InjectorHealthRets : osdin(ret)
    \/ post
    \/ done
    \/ run_loop_exit
    \/ run_exit

\* Spec with the small attempt cap, where both threads keep being scheduled and
\* every check_health call and every remote command of the worker returns;
\* nothing makes the other threads of the process end.
InitLive == Init /\ maxhealthtries = MaxAttemptsSmall
SpecLive ==
    /\ InitLive
    /\ [][Next]_vars
    /\ WF_vars(OwnerWaitStep)
    /\ WF_vars(WorkerStep)

InitHealth ==
    /\ InitInjectorIdle
    /\ maxhealthtries = DefaultMaxHealthTries
    /\ repeat = FALSE
    /\ otherThreads = 0
    /\ InitHealthIdle
    /\ use_existing = TRUE
    /\ idle_duration = 0
    /\ InitOrchIdle
    /\ pool_profiles = NoProfilesConfigured
    /\ ruleset_map = <<>>
    /\ InitPoolIdle
    /\ cur_ruleset = 1
    /\ InitRegIdle
    /\ InitScrubIdle
    /\ InitRpcIdle

NextHealth ==
    \/ \E check_list \in CheckListArgs : check_health_enter(check_list)
    \/ \E stdout \in HealthOutputs : check_health_poll(stdout)

SpecHealth == InitHealth /\ [][NextHealth]_vars

\* Ceph.__init__: use_existing and idle_duration come from the configuration.
InitInit ==
    /\ InitInjectorIdle
    /\ maxhealthtries = DefaultMaxHealthTries
    /\ repeat = FALSE
    /\ otherThreads = 0
    /\ InitHealthIdle
    /\ use_existing \in BOOLEAN
    /\ idle_duration \in 0..MaxIdle
    /\ InitOrchIdle
    /\ pool_profiles = NoProfilesConfigured
    /\ ruleset_map = <<>>
    /\ InitPoolIdle
    /\ cur_ruleset = 1
    /\ InitRegIdle
    /\ InitScrubIdle
    /\ InitRpcIdle

NextInit ==
    \/ initialize_enter
    \/ initialize_step_begin
    \/ initialize_step_end
    \/ initialize_step_raise
    \/ initialize_return

SpecInit == InitInit /\ [][NextInit]_vars

\* The registry as make_profiles left it: no crush profile, or 'fast' as rule 1.
RulesetMaps == {<<>>, [fast |-> 1]}

InitPool ==
    /\ InitInjectorIdle
    /\ maxhealthtries = DefaultMaxHealthTries
    /\ repeat = FALSE
    /\ otherThreads = 0
    /\ InitHealthIdle
    /\ use_existing = FALSE
    /\ idle_duration = 0
    /\ InitOrchIdle
    /\ pool_profiles \in ProfileTables
    /\ ruleset_map \in RulesetMaps
    /\ InitPoolIdle
    /\ cur_ruleset = 1 + Cardinality(DOMAIN ruleset_map)
    /\ crush_profiles = (IF ruleset_map = <<>> THEN <<>> ELSE <<FastItem>>)
    /\ erasure_profiles = <<>>
    /\ lastReg = NoRegCall
    /\ InitScrubIdle
    /\ InitRpcIdle

NextPool ==
    \/ \E name \in PoolNameArgs, profile_name \in ProfileNameArgs,
          stream \in PoolHealthStreams : mkpool(name, profile_name, stream)
    \/ \E name \in PoolNameArgs, profile_name \in ProfileNameArgs :
          rmpool(name, profile_name)

SpecPool == InitPool /\ [][NextPool]_vars

\* Ceph.__init__: an empty registry, next id 1; the profiles come from the
\* configuration.
InitReg ==
    /\ InitInjectorIdle
    /\ maxhealthtries = DefaultMaxHealthTries
    /\ repeat = FALSE
    /\ otherThreads = 0
    /\ InitHealthIdle
    /\ use_existing = FALSE
    /\ idle_duration = 0
    /\ InitOrchIdle
    /\ pool_profiles = NoProfilesConfigured
    /\ ruleset_map = <<>>
    /\ InitPoolIdle
    /\ cur_ruleset = 1
    /\ crush_profiles \in CrushConfigs
    /\ erasure_profiles \in ErasureConfigs
    /\ lastReg = NoRegCall
    /\ InitScrubIdle
    /\ InitRpcIdle

NextReg ==
    \/ \E name \in RulesetNameArgs : set_ruleset(name)
    \/ \E name \in RulesetNameArgs : get_ruleset(name)
    \/ make_profiles

SpecReg == InitReg /\ [][NextReg]_vars

InitScrub ==
    /\ InitInjectorIdle
    /\ maxhealthtries = DefaultMaxHealthTries
    /\ repeat = FALSE
    /\ otherThreads = 0
    /\ InitHealthIdle
    /\ use_existing = FALSE
    /\ idle_duration = 0
    /\ InitOrchIdle
    /\ pool_profiles = NoProfilesConfigured
    /\ ruleset_map = <<>>
    /\ InitPoolIdle
    /\ cur_ruleset = 1
    /\ InitRegIdle
    /\ InitScrubIdle
    /\ InitRpcIdle

NextScrub ==
    \/ check_scrub_enter
    \/ \E dump \in PgDumps : check_scrub_poll(dump)

SpecScrub == InitScrub /\ [][NextScrub]_vars

InitRemote ==
    /\ InitInjectorIdle
    /\ maxhealthtries = DefaultMaxHealthTries
    /\ repeat = FALSE
    /\ otherThreads = 0
    /\ InitHealthIdle
    /\ use_existing = FALSE
    /\ idle_duration = 0
    /\ InitOrchIdle
    /\ pool_profiles = NoProfilesConfigured
    /\ ruleset_map = <<>>
    /\ InitPoolIdle
    /\ cur_ruleset = 1
    /\ InitRegIdle
    /\ InitScrubIdle
    /\ InitRpcIdle

NextRemote ==
    \/ \E op \in RemoteOps : rpc_call(op)
    \/ rpc_issue
    \/ \E proc \in running : rpc_node_done(proc)
    \/ rpc_communicate_return
    \/ rpc_return

SpecRemote == InitRemote /\ [][NextRemote]_vars

----------------------------------------------------------------------------
\* Claims.

OwnerRequestedStop == ownerPc \in {"enumerate", "join", "returned"}

\* C1: a stop request set by the owner (wait_recovery_done) at any time after
\* create_recovery_test started the worker is never lost: from the owner's
\* stoprequest.set() on, the stop signal stays set for the worker to observe
\* at its next visit to post.
C1_StopNeverLost == OwnerRequestedStop => stoprequest

CycleEdges == {<<"pre", "markdown">>, <<"markdown", "osdout">>, <<"osdout", "osdin">>,
               <<"osdin", "post">>, <<"post", "markdown">>}

\* C2: with repeat configured the state only moves along
\* pre -> markdown -> osdout -> osdin -> post -> markdown, post is left (for
\* markdown) only while the stop signal is not set, and the halt signal is
\* raised only by a visit to post that observes the stop signal: a stop set in
\* markdown, osdout or osdin raises no halt before the cycle has reached post.
C2_RepeatCycle ==
    [][repeat =>
        /\ (~haltrequest /\ haltrequest') => (state = "post" /\ stoprequest /\ state' = "post")
        /\ (state' # state) => (<<state, state'>> \in CycleEdges)
        /\ (state = "post" /\ state' # "post") => ~stoprequest]_vars

\* A repeat run that went through post at least once without a stop (it has
\* been in osdout again) and was then halted by post observing the stop.
C2_Witness ==
    /\ repeat
    /\ haltrequest
    /\ stoprequest
    /\ state = "post"
    /\ repeated
    /\ workerPc = "exited"

\* C3 as amended: with every check_health of the cycle returning 0, the osdout
\* handler stays in osdout on its first maxhealthtries invocations and leaves
\* for osdin on invocation maxhealthtries + 1 (the 4th when the maximum is 3),
\* never earlier and never later.
C3_LeavesOnTickMaxPlusOne ==
    (outAllZero /\ state \in {"osdout", "osdin"}) =>
        (state = "osdin" <=> outTicks = maxhealthtries + 1)

\* The maximum is 3, every health check returned 0, and the 4th invocation of
\* the osdout handler has moved the machine to osdin.
C3_Witness ==
    /\ maxhealthtries = 3
    /\ outAllZero
    /\ state = "osdin"
    /\ outTicks = 4
    /\ outhealthtries = 3

\* C3 as claimed: with max attempts = 3 and every check_health returning 0,
\* the injector is in osdin after exactly 3 invocations of the osdout handler.
C3_LeavesAfterExactlyThreeTicks ==
    (maxhealthtries = 3 /\ outAllZero /\ state \in {"osdout", "osdin"}) =>
        (state = "osdin" <=> outTicks = 3)

LastSeen == hcSeen[Len(hcSeen)]

\* C4: check_health exits when the snapshot is fully healthy or none of the
\* tokens of the caller's vocabulary is in it; with the injector's reduced
\* vocabulary a not-healthy snapshot whose only condition is 'stale' ends it.
C4_CallerVocabularyEnds ==
    (hcArg = health_checklist /\ hcSeen # <<>> /\
        ("HEALTH_OK" \in LastSeen \/ health_checklist \cap LastSeen = {}))
    => hcPc = "returned"

\* A snapshot converges: fully healthy, or no token of the vocabulary in it.
Converges(stdout) == "HEALTH_OK" \in stdout \/ FullVocabulary \cap stdout = {}

C6_GuardBeforeAnything ==
    use_existing => (initLog = <<>> /\ initPc = 1 /\ initPhase \in {"idle", "raised"})

\* initialize() was called on a protected cluster and has raised.
C6_Witness == use_existing /\ initPhase = "raised"

\* The steps C7 names, in the order it names them.
C7_Order(idle) ==
    <<"rbd_unmount", "shutdown", "cleanup", "mkdir", "distribute_conf",
      "core_pattern", "setup_fs", "make_mons", "make_osds", "start_rgw",
      "check_health", "check_scrub", "make_profiles">>
    \o (IF idle > 0 THEN <<"sleep_idle">> ELSE <<>>)
C7_Named == {C7_Order(1)[i] : i \in 1..Len(C7_Order(1))}
C7_IsNamedBegin(e) == e[1] = "begin" /\ e[2] \in C7_Named
C7_Begun == SelectSeq(initLog, C7_IsNamedBegin)

\* C7: on an unprotected cluster initialize() begins its steps in the strict
\* order unmount, kill, delete, recreate, distribute configuration, core
\* pattern, local storage, monitors, storage daemons, gateways, health check,
\* scrub wait, profiles, optional idle window; a step begins only after the
\* previous one has ended, a step that raises is the last event, and
\* initialize returns only after all of them.
C7_StrictOrder ==
    /\ Len(C7_Begun) <= Len(C7_Order(idle_duration))
    /\ \A i \in 1..Len(C7_Begun) : C7_Begun[i][2] = C7_Order(idle_duration)[i]
    /\ \A i \in 1..Len(initLog) :
          /\ initLog[i][1] = "begin" =>
                /\ i > 1 => initLog[i - 1][1] = "end"
                /\ IF i = Len(initLog)
                   THEN initPhase = "in_step"
                   ELSE initLog[i + 1][1] \in {"end", "raise"} /\ initLog[i + 1][2] = initLog[i][2]
          /\ initLog[i][1] = "raise" => (i = Len(initLog) /\ initPhase = "raised")
    /\ initPhase = "returned" => Len(C7_Begun) = Len(C7_Order(idle_duration))

\* initialize() has returned from a full run that held the idle window.
C7_Witness ==
    /\ ~use_existing
    /\ idle_duration > 0
    /\ initPhase = "returned"
    /\ Len(C7_Begun) = 14

Data == PoolName("data", 0)
LastProfile == ResolveProfile(lastCall.profile)
LastCacheProfile == Get(LastProfile, "cache_profile", None)
IsCmd2(c, op, a) == c[1] = op /\ c[2] = a
IsCmd3(c, op, a, b) == c[1] = op /\ c[2] = a /\ c[3] = b

\* C8: mkpool(name, p) followed by rmpool(name, p) leaves no pool, tier or
\* overlay that did not exist before the mkpool; when p names a cache_profile,
\* rmpool removes the overlay of the base, then the base -> cache tier, then
\* deletes the cache pool, and deletes the base pool last, and no
\* base -> cache tier or overlay is left.
C8_RoundTrip ==
    roundTrip =>
        /\ DOMAIN pools \subseteq before.pools
        /\ tiers \subseteq before.tiers
        /\ overlays \subseteq before.overlays
        /\ Truthy(LastCacheProfile) =>
              LET name == lastCall.name
                  cache == CacheName(name)
                  cmds == lastCall.cmds
              IN  /\ \E i, j, k \in 1..Len(cmds) :
                        /\ i < j /\ j < k /\ k < Len(cmds)
                        /\ IsCmd2(cmds[i], "tier_remove_overlay", name)
                        /\ IsCmd3(cmds[j], "tier_remove", name, cache)
                        /\ IsCmd2(cmds[k], "pool_delete", cache)
                        /\ IsCmd2(cmds[Len(cmds)], "pool_delete", name)
                  /\ <<name, cache>> \notin tiers
                  /\ <<name, cache>> \notin overlays

\* mkpool("data", "tiered") on an empty cluster, then rmpool("data", "tiered").
C8_Witness ==
    /\ roundTrip
    /\ pool_profiles = MainProfiles
    /\ lastCall.name = Data
    /\ lastCall.profile = "tiered"
    /\ before.pools = {}
    /\ pools = <<>>
    /\ Len(lastCall.cmds) = 6

\* The values returned by the check_health calls of the last call, in order.
PollCmds == SelectSeq(lastCall.cmds, LAMBDA c : c[1] = "check_health")
Polls == [i \in 1..Len(PollCmds) |-> PollCmds[i][2]]

\* mkpool("data", "rep3") with rep3 = {replication: 3, pg_size: 128,
\* pgp_size: 128}, health OK from the start, and no pool "data" before.
C9_Case ==
    /\ lastCall.op = "mkpool"
    /\ lastCall.name = Data
    /\ lastCall.profile = "rep3"
    /\ pool_profiles = MainProfiles
    /\ lastCall.stream = <<>>
    /\ Data \notin before.pools

\* C9 as amended: the call yields a pool with replica factor 3 and 128
\* placement groups and issues exactly three convergence polls (post-create,
\* post-replica-set, final), each returning 0.
C9_ThreePolls ==
    C9_Case =>
        /\ Data \in DOMAIN pools
        /\ pools[Data].size = "3"
        /\ pools[Data].pg_num = 128
        /\ Polls = <<0, 0, 0>>

C9_Witness == C9_Case /\ Data \in DOMAIN pools /\ lastCall.error = "none"

\* C9 as claimed: replica factor 3, 128 placement groups and exactly two
\* convergence polls (post-create, post-replica-set), each returning 0.
C9_TwoPolls ==
    C9_Case =>
        /\ Data \in DOMAIN pools
        /\ pools[Data].size = "3"
        /\ pools[Data].pg_num = 128
        /\ Polls = <<0, 0>>

\* mkpool was called with a profile name that is not in pool_profiles.
C10_Case == lastCall.op = "mkpool" /\ lastCall.profile \notin DOMAIN pool_profiles
CmdKinds == [i \in 1..Len(lastCall.cmds) |-> lastCall.cmds[i][1]]

----------------------------------------------------------------------------
\* The pools reached from the pools of frontier by one or more edges of E.
RECURSIVE Reach(_, _, _)
Reach(E, frontier, seen) ==
    LET next == {e[2] : e \in {x \in E : x[1] \in frontier}} \ seen
    IN  IF next = {} THEN seen ELSE Reach(E, next, seen \cup next)

Acyclic(E) == \A e \in E : e[1] \notin Reach(E, {e[1]}, {})
AtMostOneOverlay(E) == \A e, f \in E : e[1] = f[1] => e = f
IsTierCmd(c) == c[1] \in {"tier_add", "tier_set_overlay"}

----------------------------------------------------------------------------
\* C12: set_ruleset of a name that is already registered fails with the
\* duplicate-name error and get_ruleset of a name that is not registered fails
\* with a lookup error; both leave the name -> id map and the next-id counter
\* exactly as they were.
C12_RegistryErrorsChangeNothing ==
    [][/\ (lastReg'.op = "set_ruleset" /\ PyStr(lastReg'.name) \in DOMAIN ruleset_map)
            => /\ lastReg'.error = "DuplicateRule"
               /\ UNCHANGED <<ruleset_map, cur_ruleset>>
       /\ (lastReg'.op = "get_ruleset" /\ PyStr(lastReg'.name) \notin DOMAIN ruleset_map)
            => /\ lastReg'.error = "KeyError"
               /\ UNCHANGED <<ruleset_map, cur_ruleset>>]_vars

\* set_ruleset(2) after set_ruleset("2"): the name is taken after str().
C12_Witness ==
    /\ lastReg.op = "set_ruleset"
    /\ lastReg.name = IntVal(2)
    /\ lastReg.error = "DuplicateRule"
    /\ ruleset_map = [n \in {"2"} |-> 1]
    /\ cur_ruleset = 2

\* The ids of the names in seq, in order.
IdsOf(map, seq) == [i \in 1..Len(seq) |-> map[seq[i]]]

\* C13: the ids given to successive distinct names are strictly increasing, a
\* registered name keeps its id for ever (no overwrite, no deletion), and a
\* lookup returns exactly the id the name was given.
C13_IdsIncreaseAndStay ==
    [][/\ \A n \in DOMAIN ruleset_map :
             n \in DOMAIN ruleset_map' /\ ruleset_map'[n] = ruleset_map[n]
       /\ DOMAIN ruleset_map' \ DOMAIN ruleset_map
             = {lastReg'.added[i] : i \in 1..Len(lastReg'.added)}
       /\ \A i \in 1..Len(lastReg'.added) :
             /\ \A m \in DOMAIN ruleset_map :
                   ruleset_map'[lastReg'.added[i]] > ruleset_map[m]
             /\ \A j \in 1..(i - 1) :
                   ruleset_map'[lastReg'.added[i]] > ruleset_map'[lastReg'.added[j]]
       /\ (lastReg'.op = "get_ruleset" /\ lastReg'.error = "none")
             => lastReg'.ret = ruleset_map[PyStr(lastReg'.name)]]_vars

\* Three names registered one after the other, then the second one looked up.
C13_Witness ==
    /\ Cardinality(DOMAIN ruleset_map) >= 3
    /\ lastReg.op = "get_ruleset"
    /\ lastReg.error = "none"
    /\ lastReg.ret = 2

\* The configuration holds a crush profile without osds.
LacksOsds(profile) == "osds" \notin DOMAIN profile \/ profile.osds.v = <<>>
HasNoOsdsProfile == \E i \in 1..Len(crush_profiles) : LacksOsds(crush_profiles[i][2])
FirstNoOsds ==
    CHOOSE i \in 1..Len(crush_profiles) :
        /\ LacksOsds(crush_profiles[i][2])
        /\ \A j \in 1..(i - 1) : ~LacksOsds(crush_profiles[j][2])
\* The profile names the commands of the last call mention.
NamesIn(cmds) == {cmds[i][IF cmds[i][1] = "crush_set" THEN 3 ELSE 2] : i \in 1..Len(cmds)}
NamesBefore(k) == {PyStr(crush_profiles[j][1]) : j \in 1..(k - 1)}

\* C14 as amended: with a crush profile whose osds list is empty or missing,
\* make_profiles never returns normally; when it fails on that profile it has
\* created no bucket, rule or registry entry for it, for the crush profiles
\* iterated after it or for any erasure profile, but the crush profiles
\* iterated before it have been provisioned and registered, and stay so.
C14_FailsAtTheProfile ==
    (lastReg.op = "make_profiles" /\ HasNoOsdsProfile) =>
        /\ lastReg.error \in {"NoOSDs", "DuplicateRule"}
        /\ lastReg.error = "NoOSDs" =>
              /\ NamesIn(lastReg.cmds) = NamesBefore(FirstNoOsds)
              /\ {lastReg.added[i] : i \in 1..Len(lastReg.added)} = NamesBefore(FirstNoOsds)
              /\ \A n \in NamesBefore(FirstNoOsds) : n \in DOMAIN ruleset_map

\* crush profiles iterated as fast, slow, bare (bare has no osds key).
C14_Witness ==
    /\ lastReg.op = "make_profiles"
    /\ lastReg.error = "NoOSDs"
    /\ Len(crush_profiles) = 3
    /\ FirstNoOsds = 3
    /\ Len(lastReg.added) = 2

\* C14 as claimed: make_profiles fails before any bucket hierarchy, rule or
\* registry entry is created, whatever the number and order of the profiles.
C14_FailsBeforeAnything ==
    (lastReg.op = "make_profiles" /\ HasNoOsdsProfile) =>
        /\ lastReg.error = "NoOSDs"
        /\ lastReg.cmds = <<>>
        /\ lastReg.added = <<>>

----------------------------------------------------------------------------
\* The rows of the last dump, and the stamps in which "0.000000" occurs.
LastRows == {scLast[i] : i \in DOMAIN scLast}
ZeroOccursIn == {ZeroStamp, TenStamp}

----------------------------------------------------------------------------
\* C16: every remote command of the primary flow is a synchronous barrier: an
\* operation (set_osd_param, dump_config, dump_historic_ops, shutdown, mkpool,
\* rmpool) neither returns nor starts its next step before the command it
\* issued has ended on every node, so a command that is still running on some
\* node is the one its operation is waiting for.
C16_EveryCommandIsABarrier ==
    \A proc \in running :
        /\ rpcOp = proc[1]
        /\ rpcPc = proc[2]
        /\ rpcPhase = "wait"

----------------------------------------------------------------------------
\* A step in which haltrequest goes from unset to set.
HaltRaised == ~haltrequest /\ haltrequest'

\* C17 as amended: the halt signal is raised only by the post handler upon
\* observing stop, or by the done handler after it has called the callback; no
\* handler of pre, markdown, osdout or osdin raises it.
C17_PostOrDoneHalts ==
    [][HaltRaised =>
          \/ state = "post" /\ stoprequest /\ callbacks' = callbacks
          \/ state = "done" /\ callbacks' = callbacks + 1]_vars

\* The run ended by done: no stop was ever requested, the callback was called.
C17_Witness ==
    /\ haltrequest
    /\ state = "done"
    /\ ~stoprequest
    /\ ownerPc = "started"
    /\ callbacks = 1

\* C17 as claimed: the halt signal is raised only by the post handler upon
\* observing stop.
C17_OnlyPostHalts == [][HaltRaised => (state = "post" /\ stoprequest)]_vars

StateEdges ==
    {<<"pre", "markdown">>, <<"markdown", "osdout">>, <<"osdout", "osdin">>,
     <<"osdin", "post">>, <<"post", "markdown">>, <<"post", "done">>}

\* C18: the state starts at pre; every change of it is one of pre -> markdown,
\* markdown -> osdout, osdout -> osdin, osdin -> post, post -> markdown (only
\* with repeat configured and stop not set) and post -> done (only with neither
\* stop nor repeat); it is changed only by a step of the worker's loop, never
\* by its owner, and never once halt is raised.
C18_StateEdges ==
    /\ state = "pre"
    /\ [][state' # state =>
             /\ <<state, state'>> \in StateEdges
             /\ <<state, state'>> = <<"post", "markdown">> => (repeat /\ ~stoprequest)
             /\ <<state, state'>> = <<"post", "done">> => (~repeat /\ ~stoprequest)
             /\ workerPc = "loop" /\ workerPc' = "loop"
             /\ ownerPc' = ownerPc
             /\ ~haltrequest]_vars

\* A second cycle is under way after post took its repeat edge, and the owner
\* has gone on to request the stop.
C18_Witness ==
    /\ repeated
    /\ state = "osdin"
    /\ ownerPc = "enumerate"
    /\ ~haltrequest

\* A step of the osdin handler: it counts a try or leaves the state.
OsdinTick == state = "osdin" /\ (state' # state \/ inhealthtries' # inhealthtries)

\* C19 as amended: osdin waits with its own counter: an invocation stays in
\* osdin, adding one to inhealthtries, exactly when its health call returned 0
\* and inhealthtries is below the maximum; it moves to post as soon as a health
\* call returns non-zero (the cluster was seen with one of the conditions and
\* then reconverged) or when inhealthtries has reached the maximum. The osdout
\* counter is neither read nor written.
C19_OsdinOwnCounter ==
    [][OsdinTick =>
          /\ state' = "osdin" <=> (inRetZero' /\ inhealthtries < maxhealthtries)
          /\ state' = "osdin" => inhealthtries' = inhealthtries + 1
          /\ state' # "osdin" => (state' = "post" /\ inhealthtries' = inhealthtries)
          /\ outhealthtries' = outhealthtries]_vars

\* osdout used up all its tries, and osdin has counted one try of its own and
\* is still waiting.
C19_Witness ==
    /\ state = "osdin"
    /\ maxhealthtries = MaxAttemptsSmall
    /\ outhealthtries = maxhealthtries
    /\ inhealthtries = 1
    /\ inRetZero

\* C19 as claimed: osdin moves to post as soon as a health poll finds the
\* cluster reconverged, so an invocation whose health call found the cluster
\* converged at its first poll (it returned 0) does not stay in osdin.
C19_LeavesWhenConverged ==
    [][(OsdinTick /\ inRetZero') => state' = "post"]_vars

----------------------------------------------------------------------------
\* The pool-creation and replica-count commands the last call issued for the
\* pool it was called for, and the replication mode of its profile.
CreateKinds == {"pool_create", "pool_create_erasure", "pool_create_replicated"}
OwnCreates ==
    SelectSeq(lastCall.cmds, LAMBDA c : c[1] \in CreateKinds /\ c[2] = lastCall.name)
OwnSetSizes ==
    SelectSeq(lastCall.cmds, LAMBDA c : c[1] = "pool_set_size" /\ c[2] = lastCall.name)
LastReplication == PyStr(Get(Get(pool_profiles, lastCall.profile, EmptyProfile),
                             "replication", None))
PositiveIntegerLiterals == {"1", "2", "3", "4", "5", "6", "7", "8", "9"}

\* C20: mkpool issues a single pool-creation command, in erasure mode iff the
\* replication mode is "erasure" and in plain mode otherwise, and it sets the
\* replica count (followed by a convergence poll) iff the replication mode is
\* a literal positive integer.
C20_SingleCreateCommand ==
    lastCall.op = "mkpool" =>
        /\ Len(OwnCreates) = 1
        /\ OwnCreates[1][1] = (IF LastReplication = "erasure"
                               THEN "pool_create_erasure" ELSE "pool_create_replicated")
        /\ Len(OwnSetSizes) = (IF LastReplication \in PositiveIntegerLiterals THEN 1 ELSE 0)
        /\ \A i \in 1..Len(lastCall.cmds) :
              (lastCall.cmds[i][1] = "pool_set_size" /\ lastCall.cmds[i][2] = lastCall.name)
                  => lastCall.cmds[i + 1][1] = "check_health"

----------------------------------------------------------------------------
\* The last call was a mkpool, for a profile that names a cache_profile, that
\* returned; the cache pool's name, its profile's cache mode, and the commands
\* of the call that are about the cache pool.
C21_Case ==
    /\ lastCall.op = "mkpool"
    /\ lastCall.error = "none"
    /\ Truthy(LastCacheProfile)
C21_Cache == PoolName(lastCall.name[1], lastCall.name[2] + 1)
C21_CacheMode ==
    Get(Get(pool_profiles, PyStr(LastCacheProfile), EmptyProfile), "cache_mode", None)
TierKinds == {"tier_add", "tier_cache_mode", "tier_set_overlay"}
ForCache(c) ==
    /\ c[1] # "check_health"
    /\ c[2] = C21_Cache \/ (c[1] \in {"tier_add", "tier_set_overlay"} /\ c[3] = C21_Cache)
C21_First ==
    CHOOSE i \in 1..Len(lastCall.cmds) :
        ForCache(lastCall.cmds[i]) /\ \A j \in 1..(i - 1) : ~ForCache(lastCall.cmds[j])
C21_Tier == SelectSeq(lastCall.cmds, LAMBDA c : c[1] \in TierKinds)

\* C21: a mkpool for a profile with a cache_profile configures the base pool
\* completely (creation, replica count for a digit replication, tuning knobs,
\* final convergence poll) before its first command for '<name>-cache'; the
\* cache pool is created, and wired, before the call returns; the wiring is
\* issued only when the cache profile has a cache mode, as tier add of the
\* cache to the base, cache mode of the cache, overlay of the base to the cache.
C21_BaseThenCache ==
    C21_Case =>
        LET cmds == lastCall.cmds
            name == lastCall.name
            first == C21_First
        IN  /\ \E i \in 1..Len(cmds) : ForCache(cmds[i])
            /\ cmds[first][1] = "pool_create" /\ cmds[first][2] = C21_Cache
            /\ first > 1 /\ cmds[first - 1][1] = "check_health"
            /\ \A i \in 1..(first - 1) : cmds[i][1] = "check_health" \/ cmds[i][2] = name
            /\ \A i \in first..Len(cmds) : cmds[i][1] = "check_health" \/ ForCache(cmds[i])
            /\ \E i \in 1..(first - 1) : cmds[i][1] \in CreateKinds /\ cmds[i][2] = name
            /\ (LastReplication \in PositiveIntegerLiterals) =>
                  \E i \in 1..(first - 2) :
                      /\ IsCmd3(cmds[i], "pool_set_size", name, LastReplication)
                      /\ cmds[i + 1][1] = "check_health"
            /\ cmds[Len(cmds)][1] = "check_health"
            /\ C21_Tier = (IF Truthy(C21_CacheMode)
                           THEN << <<"tier_add", name, C21_Cache>>,
                                   <<"tier_cache_mode", C21_Cache, PyStr(C21_CacheMode)>>,
                                   <<"tier_set_overlay", name, C21_Cache>> >>
                           ELSE <<>>)

\* mkpool("data", "tiered") on a cluster without pools: data-cache is created,
\* made a tier of data and set as its overlay.
C21_Witness ==
    /\ C21_Case
    /\ lastCall.name = Data
    /\ lastCall.profile = "tiered"
    /\ before.pools = {}
    /\ overlays = {<<Data, PoolName("data", 1)>>}

----------------------------------------------------------------------------
\* The delete of pool p with the acknowledgement the monitor asks for.
ConfirmedDelete(p) == <<"pool_delete", p, p, "--yes-i-really-really-mean-it">>
C22_Cache == PoolName(lastCall.name[1], lastCall.name[2] + 1)

\* C22: rmpool for a profile with a cache_profile issues, in this order:
\* forward mode on the cache pool, flush-and-evict of the cache pool, removal
\* of the base's overlay, removal of the tier, the removal of the cache pool
\* (ending with its confirmed delete), and last the confirmed delete of the
\* base pool; for a profile without cache_profile it issues only the confirmed
\* delete of the named pool.
C22_RemovalOrder ==
    lastCall.op = "rmpool" =>
        LET cmds == lastCall.cmds
            name == lastCall.name
            n == Len(cmds)
        IN  IF Truthy(LastCacheProfile)
            THEN /\ n >= 6
                 /\ cmds[1] = <<"tier_cache_mode", C22_Cache, "forward">>
                 /\ cmds[2] = <<"cache_flush_evict_all", C22_Cache>>
                 /\ cmds[3] = <<"tier_remove_overlay", name>>
                 /\ cmds[4] = <<"tier_remove", name, C22_Cache>>
                 /\ \A i \in 5..(n - 1) : cmds[i][2] # name
                 /\ cmds[n - 1] = ConfirmedDelete(C22_Cache)
                 /\ cmds[n] = ConfirmedDelete(name)
            ELSE cmds = <<ConfirmedDelete(name)>>

\* mkpool("data-cache", "tiered") on a cluster without pools, then
\* rmpool("data-cache", "tiered"): both pools are gone afterwards.
C22_Witness ==
    /\ lastCall.op = "rmpool"
    /\ lastCall.name = PoolName("data", 1)
    /\ lastCall.profile = "tiered"
    /\ pool_profiles = MainProfiles
    /\ roundTrip
    /\ before.pools = {}
    /\ pools = <<>>
    /\ lastCall.cmds[5] = ConfirmedDelete(PoolName("data", 2))

----------------------------------------------------------------------------
\* C23: wait_recovery_done returns only after the worker has raised halt and
\* its thread has ended, and, every health poll returning, it does return once
\* it has set the stop request, with repeat configured or not and whatever
\* other threads the process has.
C23_WaitReturns ==
    /\ [](ownerPc = "returned" => (haltrequest /\ workerPc = "exited"))
    /\ (ownerPc = "enumerate") ~> (ownerPc = "returned")

----------------------------------------------------------------------------
\* C24: whenever the halt signal is raised the fault has been reverted: the
\* noup flag has been cleared and every configured target osd has been marked
\* up and in after it was last marked down and out; the run never halts while
\* a target is still marked down or out.
C24_HaltsOnlyReverted ==
    /\ haltrequest => (~noup /\ marked = {})
    /\ state \in {"post", "done"} => (~noup /\ marked = {})

\* The run was halted by post on a stop request after at least two cycles of
\* marking the targets down and out.
C24_Witness ==
    /\ haltrequest
    /\ repeated
    /\ state = "post"
    /\ stoprequest
    /\ workerPc = "exited"

----------------------------------------------------------------------------
\* C25: in every cycle, the repeated ones entered from post included, the
\* noup flag is raised when markdown marks the target osds down and out and
\* stays raised until osdout clears it: while targets are marked down and out,
\* noup is set.
C25_NoupWhileMarked == (marked # {} /\ state = "osdout") => noup

----------------------------------------------------------------------------
\* C26: the caller's callback is invoked at most once per run, only by the
\* done handler and before halt is raised; in a run where post observes the
\* stop signal, or where repeat is configured, it is never invoked.
C26_CallbackOnceByDone ==
    /\ [](callbacks <= 1)
    /\ [][callbacks' # callbacks =>
             /\ state = "done"
             /\ workerPc = "loop"
             /\ ~haltrequest
             /\ callbacks' = callbacks + 1]_vars
    /\ [](repeat => callbacks = 0)
    /\ []((state = "post" /\ haltrequest) => callbacks = 0)

\* A run without repeat that ended through done: one call, the thread ended.
C26_Witness ==
    /\ callbacks = 1
    /\ state = "done"
    /\ ~repeat
    /\ workerPc = "exited"

====
